---- MODULE Spec2Model ----
(***************************************************************************)
(* Governance engine of the Hi-platform-cli AWS wrapper (src/main.py):     *)
(* the global count, the admission check of the create commands, the       *)
(* ownership check of the mutating commands, the start/stop validation of  *)
(* ec2 manage and the record change of route53 manage.                     *)
(*                                                                         *)
(* The provider (AWS) is the shared state: instances, buckets, zones.      *)
(* Every provider call of a command is one step, so that the resource set  *)
(* can change between any two calls of a command.                          *)
(***************************************************************************)
EXTENDS Integers, Sequences, FiniteSets, TLC

\* ------------------------------------------------------------------ constants

MAX_RESOURCES == 2

\* provider page size of list_hosted_zones (a bound of the model)
PageSize == 2
\* commands one invocation runs after its first, where commands run in sequence
MaxFollowUps == 2
\* longest tag list drawn for the ownership checks
MaxTags == 3

Procs == {1, 2}

InstanceStates == {"pending", "running", "stopping", "stopped", "terminated"}

\* ------------------------------------------------------------------ tags

Tag(k, v) == [Key |-> k, Value |-> v]

OwnerTag == Tag("CreatedBy", "Hi-platform-cli")

NoTags == << >>
OwnedTags == << OwnerTag, Tag("Name", "node") >>
\* the ownership pair after another tag
OwnedLast == << Tag("Name", "node"), OwnerTag >>
\* the key CreatedBy with another value
OtherTags == << Tag("CreatedBy", "someone-else") >>

TagChoices == {NoTags, OwnedTags, OtherTags}

\* the pairs the ownership checks are tried on
TagAlphabet ==
    { OwnerTag, Tag("CreatedBy", "someone-else"), Tag("Name", "node"),
      Tag("Owner", "Hi-platform-cli") }

RECURSIVE SeqsUpTo(_, _)
SeqsUpTo(S, n) ==
    IF n = 0 THEN { << >> }
    ELSE LET shorter == SeqsUpTo(S, n - 1)
         IN  shorter \cup { Append(s, x) : s \in shorter, x \in S }

TagLists == SeqsUpTo(TagAlphabet, MaxTags)

\* The five ownership loops of the program, each as written at its place.

\* get_global_count, bucket loop: for tag in tags: if Key == .. and Value == ..
s3_count_owned(tags) ==
    \E i \in 1..Len(tags) :
        tags[i].Key = "CreatedBy" /\ tags[i].Value = "Hi-platform-cli"

\* get_global_count, zone loop
r53_count_owned(tags) ==
    \E i \in 1..Len(tags) :
        tags[i].Key = "CreatedBy" /\ tags[i].Value = "Hi-platform-cli"

\* is_our_instance_KeyOnly: the loop comparing the key alone
is_our_instance_KeyOnly(tags) ==
    \E i \in 1..Len(tags) : tags[i].Key = "CreatedBy"

\* ec2 manage
is_our_instance(tags) ==
    \E i \in 1..Len(tags) :
        tags[i].Key = "CreatedBy" /\ tags[i].Value = "Hi-platform-cli"

\* is_our_bucket_KeyOnly: the loop comparing the key alone
is_our_bucket_KeyOnly(tag_set) ==
    \E i \in 1..Len(tag_set) : tag_set[i].Key = "CreatedBy"

\* s3 upload
is_our_bucket(tag_set) ==
    \E i \in 1..Len(tag_set) :
        tag_set[i].Key = "CreatedBy" /\ tag_set[i].Value = "Hi-platform-cli"

\* route53 manage
is_our_record(tags) ==
    \E i \in 1..Len(tags) :
        tags[i].Key = "CreatedBy" /\ tags[i].Value = "Hi-platform-cli"

\* the provider-side filter tag:CreatedBy = Hi-platform-cli of describe_instances
ec2_tag_filter(tags) ==
    \E i \in 1..Len(tags) :
        tags[i].Key = "CreatedBy" /\ tags[i].Value = "Hi-platform-cli"

\* ------------------------------------------------------------------ provider

\* A zone or domain name is a sequence of pieces; the trailing dot is a last
\* piece ".":  example.com = <<"example.com">>, example.com. = <<"example.com", ".">>
ExampleCom == << "example.com" >>
ExampleComDot == << "example.com", "." >>
OtherOrgDot == << "other.org", "." >>

endswith_dot(name) == Len(name) > 0 /\ name[Len(name)] = "."

\* the provider stores a hosted zone's name with the trailing dot
provider_zone_name(domain) == IF endswith_dot(domain) THEN domain ELSE Append(domain, ".")

RecordKeys == { << "api.example.com.", "A" >> }
RecordValues == { "1.2.3.4", "5.6.7.8" }
TTLs == { 300 }
NoRecord == [Value |-> "none", TTL |-> 0]
NoRecords == [k \in RecordKeys |-> NoRecord]

Instance(tags, state) == [tags |-> tags, state |-> state]
Bucket(tags) == [tags |-> tags, acl |-> "private", objects |-> {}]
Zone(name, tags) == [name |-> name, tags |-> tags, records |-> NoRecords]

\* a provider call: the operation, the resource it names and, for a record
\* change, the action of the change batch
Call(op, target) == [op |-> op, target |-> target, action |-> "none"]
ChangeCall(action, target) ==
    [op |-> "change_resource_record_sets", target |-> target, action |-> action]

\* s3.get_bucket_tagging: a bucket without tags answers NoSuchTagSet, a missing
\* bucket NoSuchBucket (both ClientError); fault is a failure of the call itself
get_bucket_tagging(bkts, b, fault) ==
    IF fault # "ok" THEN [err |-> fault, TagSet |-> NoTags]
    ELSE IF b \notin 1..Len(bkts) THEN [err |-> "NoSuchBucket", TagSet |-> NoTags]
    ELSE IF bkts[b].tags = NoTags THEN [err |-> "NoSuchTagSet", TagSet |-> NoTags]
    ELSE [err |-> "none", TagSet |-> bkts[b].tags]

\* r53.list_tags_for_resource: a zone without tags answers an empty list
list_tags_for_resource(zns, z, fault) ==
    IF fault # "ok" THEN [err |-> fault, Tags |-> NoTags]
    ELSE [err |-> "none", Tags |-> zns[z].tags]

\* the pages of the list_hosted_zones paginator
NPages(zns) == IF Len(zns) = 0 THEN 1 ELSE (Len(zns) + PageSize - 1) \div PageSize

Page(zns, k) ==
    LET first == (k - 1) * PageSize + 1
        last == IF k * PageSize < Len(zns) THEN k * PageSize ELSE Len(zns)
    IN  [i \in 1..(last - first + 1) |-> first + i - 1]

\* ------------------------------------------------------------------ get_global_count

\* what can go wrong during one count: a failing primary listing call
\* (list = "none" when all succeed; page = the failing page of
\* list_hosted_zones) and, per bucket and per zone, a failing tag lookup
Faults(bkts, zns) ==
    [ list : {"none", "describe_instances", "list_buckets", "list_hosted_zones"},
      page : 1..NPages(zns),
      bucket : [1..Len(bkts) -> {"ok", "ClientError", "Exception"}],
      zone : [1..Len(zns) -> {"ok", "Exception"}] ]

NoFault(bkts, zns) ==
    [ list |-> "none", page |-> 1,
      bucket |-> [i \in 1..Len(bkts) |-> "ok"],
      zone |-> [i \in 1..Len(zns) |-> "ok"] ]

Result(aborted, count, calls) == [aborted |-> aborted, count |-> count, calls |-> calls]

\* ec2.describe_instances(Filters = tag:CreatedBy, instance-state-name = running);
\* every instance of every reservation returned is counted
ec2_count(inst) ==
    Cardinality({ i \in 1..Len(inst) :
                    ec2_tag_filter(inst[i].tags) /\ inst[i].state = "running" })

\* the bucket loop from bucket i on: only ClientError is caught
RECURSIVE s3_loop(_, _, _)
s3_loop(bkts, fault, i) ==
    IF i > Len(bkts) THEN Result(FALSE, 0, << >>)
    ELSE LET r == get_bucket_tagging(bkts, i, fault.bucket[i])
             c == << Call("get_bucket_tagging", i) >>
         IN  IF r.err = "Exception" THEN Result(TRUE, 0, c)
             ELSE LET rest == s3_loop(bkts, fault, i + 1)
                      one == IF r.err = "none" /\ s3_count_owned(r.TagSet) THEN 1 ELSE 0
                  IN  Result(rest.aborted, one + rest.count, c \o rest.calls)

\* the zones of one page from position j on: every Exception is caught
RECURSIVE r53_page_loop(_, _, _, _)
r53_page_loop(zns, fault, page, j) ==
    IF j > Len(page) THEN Result(FALSE, 0, << >>)
    ELSE LET z == page[j]
             r == list_tags_for_resource(zns, z, fault.zone[z])
             rest == r53_page_loop(zns, fault, page, j + 1)
             one == IF r.err = "none" /\ r53_count_owned(r.Tags) THEN 1 ELSE 0
         IN  Result(FALSE, one + rest.count,
                    << Call("list_tags_for_resource", z) >> \o rest.calls)

\* the paginator loop from page k on
RECURSIVE r53_loop(_, _, _)
r53_loop(zns, fault, k) ==
    IF k > NPages(zns) THEN Result(FALSE, 0, << >>)
    ELSE LET c == << Call("list_hosted_zones", k) >>
         IN  IF fault.list = "list_hosted_zones" /\ fault.page = k
             THEN Result(TRUE, 0, c)
             ELSE LET here == r53_page_loop(zns, fault, Page(zns, k), 1)
                      rest == r53_loop(zns, fault, k + 1)
                  IN  Result(rest.aborted, here.count + rest.count,
                             c \o here.calls \o rest.calls)

\* get_global_count(): aborted when an exception leaves the function
get_global_count(inst, bkts, zns, fault) ==
    LET c1 == << Call("describe_instances", 0) >>
        c2 == << Call("list_buckets", 0) >>
    IN  IF fault.list = "describe_instances" THEN Result(TRUE, 0, c1)
        ELSE IF fault.list = "list_buckets" THEN Result(TRUE, 0, c1 \o c2)
        ELSE LET s3 == s3_loop(bkts, fault, 1)
             IN  IF s3.aborted THEN Result(TRUE, 0, c1 \o c2 \o s3.calls)
                 ELSE LET r53 == r53_loop(zns, fault, 1)
                      IN  Result(r53.aborted,
                                 IF r53.aborted THEN 0
                                 ELSE ec2_count(inst) + s3.count + r53.count,
                                 c1 \o c2 \o s3.calls \o r53.calls)

\* ------------------------------------------------------------------ state

VARIABLES
    instances,   \* provider: sequence of instances, the id is the position
    buckets,     \* provider: sequence of buckets, the name is the position
    zones,       \* provider: hosted zones in enumeration order, the id is the position
    pc,          \* per invocation: the next provider call of the running command
    cmd,         \* per invocation: the command line
    loc,         \* per invocation: the command's local variables
    calls,       \* per invocation: the provider calls the command has issued
    outcome,     \* per invocation: the message the command ended with
    exitStatus,  \* per invocation: the process exit status
    budget,      \* commands that may still follow a finished one
    applied,     \* the record intents applied so far, in order
    tagInput,    \* ownership checks: the tag list tried
    verdicts,    \* ownership checks: the answer of each check
    countResult, \* get_global_count: the value returned last
    countFault,  \* get_global_count: the calls that fail during the count
    countAborted \* get_global_count: an exception left the function

world == << instances, buckets, zones >>
run == << pc, cmd, loc, calls, outcome, exitStatus, budget, applied >>
pure == << tagInput, verdicts, countResult, countFault, countAborted >>
vars == << instances, buckets, zones, pc, cmd, loc, calls, outcome, exitStatus,
           budget, applied, tagInput, verdicts, countResult, countFault,
           countAborted >>

NoCmd == [name |-> "none"]
\* total_count, state and id (found_zone_id, bucket_name, zone_id) are the
\* command's variables; checked and tags record what its ownership lookup met:
\* "missing" (no such resource), "failed" (the call failed) or "found", with
\* the tags the resource had at that moment; owned_at_call records whether the
\* resource held the pair when the command's mutation call reached the
\* provider ("none" before that call)
NoLoc == [total_count |-> 0, state |-> "none", id |-> 0, checked |-> "no",
          tags |-> NoTags, owned_at_call |-> "none"]
NoVerdicts == [done |-> FALSE]

RunInit ==
    /\ pc = [p \in Procs |-> "idle"]
    /\ cmd = [p \in Procs |-> NoCmd]
    /\ loc = [p \in Procs |-> NoLoc]
    /\ calls = [p \in Procs |-> << >>]
    /\ outcome = [p \in Procs |-> "none"]
    /\ exitStatus = [p \in Procs |-> 0]

PureInit ==
    /\ tagInput = NoTags
    /\ verdicts = NoVerdicts
    /\ countResult = -1
    /\ countFault = NoFault(<< >>, << >>)
    /\ countAborted = FALSE

\* the resource sets a command can meet: at most one resource of each kind,
\* with any of the tag sets and, for an instance, in any state
Init ==
    /\ instances \in { << >> } \cup
                     { << Instance(t, s) >> : t \in TagChoices, s \in InstanceStates }
    /\ buckets \in { << >> } \cup { << Bucket(t) >> : t \in TagChoices }
    /\ zones \in { << >> } \cup { << Zone(ExampleComDot, t) >> : t \in TagChoices }
    /\ RunInit
    /\ budget = 0
    /\ applied = << >>
    /\ PureInit

\* ------------------------------------------------------------------ steps of a command

\* a command starts: click has parsed the command line c
\* (one process runs one command; where commands run in sequence, the next
\* one starts when the last has exited)
Begin(p, c) ==
    /\ \/ pc[p] = "idle" /\ budget' = budget
       \/ pc[p] = "done" /\ budget > 0 /\ budget' = budget - 1
    /\ cmd' = [cmd EXCEPT ![p] = c]
    /\ UNCHANGED applied

\* sys.exit(code), a return from the command, or an uncaught exception
Finish(p, out, code) ==
    /\ pc' = [pc EXCEPT ![p] = "done"]
    /\ outcome' = [outcome EXCEPT ![p] = out]
    /\ exitStatus' = [exitStatus EXCEPT ![p] = code]

Goto(p, label) ==
    /\ pc' = [pc EXCEPT ![p] = label]
    /\ outcome' = [outcome EXCEPT ![p] = "none"]
    /\ exitStatus' = [exitStatus EXCEPT ![p] = 0]

Issue(p, cs) == calls' = [calls EXCEPT ![p] = @ \o cs]

\* ------------------------------------------------------------------ ec2 manage

\* ec2.start_instances: a stopped instance goes to pending, a running or pending
\* one is left as it is, any other state is refused (IncorrectInstanceState)
start_instances(inst, id) ==
    IF id \notin 1..Len(inst) THEN { [err |-> "InvalidInstanceID", inst |-> inst] }
    ELSE IF inst[id].state = "stopped"
         THEN { [err |-> "none", inst |-> [inst EXCEPT ![id].state = "pending"]] }
    ELSE IF inst[id].state \in {"running", "pending"}
         THEN { [err |-> "none", inst |-> inst] }
    ELSE { [err |-> "IncorrectInstanceState", inst |-> inst] }

\* ec2.stop_instances: a running instance goes to stopping, a stopping or stopped
\* one is left as it is, a terminated one is refused; a pending one is either
\* stopped or refused
stop_instances(inst, id) ==
    IF id \notin 1..Len(inst) THEN { [err |-> "InvalidInstanceID", inst |-> inst] }
    ELSE IF inst[id].state = "running"
         THEN { [err |-> "none", inst |-> [inst EXCEPT ![id].state = "stopping"]] }
    ELSE IF inst[id].state \in {"stopping", "stopped"}
         THEN { [err |-> "none", inst |-> inst] }
    ELSE IF inst[id].state = "pending"
         THEN { [err |-> "none", inst |-> [inst EXCEPT ![id].state = "stopping"]],
                [err |-> "IncorrectInstanceState", inst |-> inst] }
    ELSE { [err |-> "IncorrectInstanceState", inst |-> inst] }

\* validate_NoPending: validate without the check for a pending instance
validate_NoPending(start, stop, state) ==
    IF start
    THEN IF state = "running" THEN "NoOp" ELSE "start_instances"
    ELSE IF state = "stopped" THEN "NoOp"
         ELSE IF state = "stopping" THEN "NoOp"
         ELSE IF state = "terminated" THEN "InvalidTransition"
         ELSE "stop_instances"

\* the state checks of manage, with exactly one of start and stop set: what
\* the command does next on an instance in this state
validate(start, stop, state) ==
    IF start
    THEN IF state = "running" THEN "NoOp"
         ELSE IF state = "pending" THEN "NoOp"
         ELSE "start_instances"
    ELSE IF state = "stopped" THEN "NoOp"
         ELSE IF state = "stopping" THEN "NoOp"
         ELSE IF state = "terminated" THEN "InvalidTransition"
         ELSE "stop_instances"

\* Ec2ManageBegin_BothOnly: only the check of both flags together is made
Ec2ManageBegin_BothOnly(p) ==
    \E start \in BOOLEAN, stop \in BOOLEAN, id \in 1..(Len(instances) + 1) :
        /\ Begin(p, [name |-> "ec2 manage", start |-> start, stop |-> stop,
                     instance_id |-> id])
        /\ calls' = [calls EXCEPT ![p] = << >>]
        /\ loc' = [loc EXCEPT ![p] = NoLoc]
        /\ IF start /\ stop THEN Finish(p, "UserInput", 1)
           ELSE Goto(p, "ec2m_describe")
        /\ UNCHANGED << world, pure >>

\* manage(start, stop, instance_id) up to its first provider call
Ec2ManageBegin(p) ==
    \E start \in BOOLEAN, stop \in BOOLEAN, id \in 1..(Len(instances) + 1) :
        /\ Begin(p, [name |-> "ec2 manage", start |-> start, stop |-> stop,
                     instance_id |-> id])
        /\ calls' = [calls EXCEPT ![p] = << >>]
        /\ loc' = [loc EXCEPT ![p] = NoLoc]
        /\ IF start /\ stop THEN Finish(p, "UserInput", 1)
           ELSE IF ~start /\ ~stop THEN Finish(p, "UserInput", 1)
           ELSE Goto(p, "ec2m_describe")
        /\ UNCHANGED << world, pure >>

\* describe_instances(InstanceIds=[id]), the ownership loop and the state checks
Ec2ManageDescribe(p) ==
    /\ pc[p] = "ec2m_describe"
    /\ LET id == cmd[p].instance_id IN
       /\ Issue(p, << Call("describe_instances", id) >>)
       /\ \E fault \in {"ok", "Exception"} :
            IF fault # "ok"
            THEN /\ Finish(p, "NotFound", 1)
                 /\ loc' = [loc EXCEPT ![p].checked = "failed"]
            ELSE IF id \notin 1..Len(instances)
            THEN /\ Finish(p, "NotFound", 1)
                 /\ loc' = [loc EXCEPT ![p].checked = "missing"]
            ELSE IF ~is_our_instance(instances[id].tags)
            THEN /\ Finish(p, "NotOwned", 1)
                 /\ loc' = [loc EXCEPT ![p].checked = "found",
                                       ![p].tags = instances[id].tags]
            ELSE LET state == instances[id].state IN
                 /\ loc' = [loc EXCEPT ![p].checked = "found",
                                       ![p].tags = instances[id].tags,
                                       ![p].state = state]
                 /\ LET v == validate(cmd[p].start, cmd[p].stop, state) IN
                    IF v = "NoOp" THEN Finish(p, "NoOp", 0)
                    ELSE IF v = "InvalidTransition" THEN Finish(p, "InvalidTransition", 1)
                    ELSE IF v = "start_instances" THEN Goto(p, "ec2m_start")
                    ELSE Goto(p, "ec2m_stop")
    /\ UNCHANGED << world, cmd, budget, applied, pure >>

\* Ec2ManageStart_Recheck: the tags are read again right before the call
Ec2ManageStart_Recheck(p) ==
    /\ pc[p] = "ec2m_start"
    /\ IF ~is_our_instance(instances[cmd[p].instance_id].tags)
       THEN /\ Issue(p, << Call("describe_instances", cmd[p].instance_id) >>)
            /\ Finish(p, "NotOwned", 1)
            /\ UNCHANGED << instances, loc >>
       ELSE /\ Issue(p, << Call("describe_instances", cmd[p].instance_id),
                           Call("start_instances", cmd[p].instance_id) >>)
            /\ loc' = [loc EXCEPT ![p].owned_at_call = "yes"]
            /\ \E r \in start_instances(instances, cmd[p].instance_id) :
                 /\ instances' = r.inst
                 /\ IF r.err = "none" THEN Finish(p, "Success", 0)
                    ELSE Finish(p, "Crash", 1)
    /\ UNCHANGED << buckets, zones, cmd, budget, applied, pure >>

\* ec2.start_instances(InstanceIds=[id]); a refusal is an uncaught ClientError
Ec2ManageStart(p) ==
    /\ pc[p] = "ec2m_start"
    /\ Issue(p, << Call("start_instances", cmd[p].instance_id) >>)
    /\ loc' = [loc EXCEPT ![p].owned_at_call =
                 IF is_our_instance(instances[cmd[p].instance_id].tags)
                 THEN "yes" ELSE "no"]
    /\ \E r \in start_instances(instances, cmd[p].instance_id) :
        /\ instances' = r.inst
        /\ IF r.err = "none" THEN Finish(p, "Success", 0) ELSE Finish(p, "Crash", 1)
    /\ UNCHANGED << buckets, zones, cmd, budget, applied, pure >>

\* ec2.stop_instances(InstanceIds=[id])
Ec2ManageStop(p) ==
    /\ pc[p] = "ec2m_stop"
    /\ Issue(p, << Call("stop_instances", cmd[p].instance_id) >>)
    /\ loc' = [loc EXCEPT ![p].owned_at_call =
                 IF is_our_instance(instances[cmd[p].instance_id].tags)
                 THEN "yes" ELSE "no"]
    /\ \E r \in stop_instances(instances, cmd[p].instance_id) :
        /\ instances' = r.inst
        /\ IF r.err = "none" THEN Finish(p, "Success", 0) ELSE Finish(p, "Crash", 1)
    /\ UNCHANGED << buckets, zones, cmd, budget, applied, pure >>

\* ------------------------------------------------------------------ ec2 create

OSChoices == {"amazon-linux", "ubuntu"}

node_name(os) ==
    IF os = "amazon-linux" THEN "Hi-platform-cli-amazon-linux-node"
    ELSE "Hi-platform-cli-ubuntu-node"

\* ec2.run_instances(MinCount=1, MaxCount=1, TagSpecifications=[CreatedBy, Name]):
\* the instance is created pending, with its tags
run_instances(inst, os) ==
    Append(inst, Instance(<< OwnerTag, Tag("Name", node_name(os)) >>, "pending"))

\* create(type, os) up to its first provider call
Ec2CreateBegin(p) ==
    \E os \in OSChoices :
        /\ Begin(p, [name |-> "ec2 create", os |-> os])
        /\ calls' = [calls EXCEPT ![p] = << >>]
        /\ loc' = [loc EXCEPT ![p] = NoLoc]
        /\ Goto(p, "ec2c_sts")
        /\ UNCHANGED << world, pure >>

\* boto3.client('sts').get_caller_identity()
Ec2CreateSts(p) ==
    /\ pc[p] = "ec2c_sts"
    /\ Issue(p, << Call("get_caller_identity", 0) >>)
    /\ \E ok \in BOOLEAN :
        IF ok THEN Goto(p, "ec2c_count") ELSE Finish(p, "ConfigError", 1)
    /\ UNCHANGED << world, cmd, loc, budget, applied, pure >>

\* total_count = get_global_count(); if total_count >= MAX_RESOURCES: exit(1)
Ec2CreateCount(p) ==
    /\ pc[p] = "ec2c_count"
    /\ \E fault \in Faults(buckets, zones) :
        LET r == get_global_count(instances, buckets, zones, fault) IN
        /\ Issue(p, r.calls)
        /\ IF r.aborted THEN Finish(p, "Crash", 1) /\ UNCHANGED loc
           ELSE /\ loc' = [loc EXCEPT ![p].total_count = r.count]
                /\ IF r.count >= MAX_RESOURCES
                   THEN Finish(p, "QuotaExceeded", 1)
                   ELSE Goto(p, "ec2c_ssm")
    /\ UNCHANGED << world, cmd, budget, applied, pure >>

\* ssm.get_parameter(Name=param_name)
Ec2CreateSsm(p) ==
    /\ pc[p] = "ec2c_ssm"
    /\ Issue(p, << Call("get_parameter", 0) >>)
    /\ Goto(p, "ec2c_run")
    /\ UNCHANGED << world, cmd, loc, budget, applied, pure >>

\* Ec2CreateRun_Recheck: the count is taken again right before the create call
Ec2CreateRun_Recheck(p) ==
    /\ pc[p] = "ec2c_run"
    /\ LET r == get_global_count(instances, buckets, zones, NoFault(buckets, zones)) IN
       IF r.count >= MAX_RESOURCES
       THEN /\ Issue(p, r.calls)
            /\ Finish(p, "QuotaExceeded", 1)
            /\ UNCHANGED instances
       ELSE /\ instances' = run_instances(instances, cmd[p].os)
            /\ Issue(p, r.calls \o << Call("run_instances", Len(instances) + 1) >>)
            /\ Finish(p, "Success", 0)
    /\ UNCHANGED << buckets, zones, cmd, loc, budget, applied, pure >>

\* ec2_client.run_instances(...)
Ec2CreateRun(p) ==
    /\ pc[p] = "ec2c_run"
    /\ instances' = run_instances(instances, cmd[p].os)
    /\ Issue(p, << Call("run_instances", Len(instances) + 1) >>)
    /\ Finish(p, "Success", 0)
    /\ UNCHANGED << buckets, zones, cmd, loc, budget, applied, pure >>

\* ------------------------------------------------------------------ s3 create

\* s3.put_bucket_tagging replaces the bucket's tag set
put_bucket_tagging(bkts, b, tag_set) == [bkts EXCEPT ![b].tags = tag_set]

\* create(pub, pri) up to its first provider call
S3CreateBegin(p) ==
    \E pub \in BOOLEAN, pri \in BOOLEAN :
        /\ Begin(p, [name |-> "s3 create", pub |-> pub, pri |-> pri])
        /\ calls' = [calls EXCEPT ![p] = << >>]
        /\ loc' = [loc EXCEPT ![p] = NoLoc]
        /\ IF pub /\ pri THEN Finish(p, "UserInput", 1) ELSE Goto(p, "s3c_sts")
        /\ UNCHANGED << world, pure >>

S3CreateSts(p) ==
    /\ pc[p] = "s3c_sts"
    /\ Issue(p, << Call("get_caller_identity", 0) >>)
    /\ \E ok \in BOOLEAN :
        IF ok THEN Goto(p, "s3c_count") ELSE Finish(p, "ConfigError", 1)
    /\ UNCHANGED << world, cmd, loc, budget, applied, pure >>

S3CreateCount(p) ==
    /\ pc[p] = "s3c_count"
    /\ \E fault \in Faults(buckets, zones) :
        LET r == get_global_count(instances, buckets, zones, fault) IN
        /\ Issue(p, r.calls)
        /\ IF r.aborted THEN Finish(p, "Crash", 1) /\ UNCHANGED loc
           ELSE /\ loc' = [loc EXCEPT ![p].total_count = r.count]
                /\ IF r.count >= MAX_RESOURCES
                   THEN Finish(p, "QuotaExceeded", 1)
                   ELSE Goto(p, "s3c_create")
    /\ UNCHANGED << world, cmd, budget, applied, pure >>

\* S3CreateBucket_Tagged: the bucket is created together with its tags
S3CreateBucket_Tagged(p) ==
    /\ pc[p] = "s3c_create"
    /\ buckets' = Append(buckets,
            Bucket(<< OwnerTag, Tag("Name", "hi-platform-cli-storage") >>))
    /\ loc' = [loc EXCEPT ![p].id = Len(buckets) + 1]
    /\ Issue(p, << Call("create_bucket", Len(buckets) + 1) >>)
    /\ Goto(p, "s3c_tag")
    /\ UNCHANGED << instances, zones, cmd, budget, applied, pure >>

\* s3.create_bucket(Bucket=bucket_name): the new bucket has no tags yet
S3CreateBucket(p) ==
    /\ pc[p] = "s3c_create"
    /\ buckets' = Append(buckets, Bucket(NoTags))
    /\ loc' = [loc EXCEPT ![p].id = Len(buckets) + 1]
    /\ Issue(p, << Call("create_bucket", Len(buckets) + 1) >>)
    /\ Goto(p, "s3c_tag")
    /\ UNCHANGED << instances, zones, cmd, budget, applied, pure >>

\* s3.put_bucket_tagging(Bucket=bucket_name, Tagging=[CreatedBy, Name]);
\* a failure is an uncaught exception
S3CreateTag(p) ==
    /\ pc[p] = "s3c_tag"
    /\ Issue(p, << Call("put_bucket_tagging", loc[p].id) >>)
    /\ \E ok \in BOOLEAN :
        IF ok
        THEN /\ buckets' = put_bucket_tagging(buckets, loc[p].id,
                    << OwnerTag, Tag("Name", "hi-platform-cli-storage") >>)
             /\ IF cmd[p].pub THEN Goto(p, "s3c_public") ELSE Finish(p, "Success", 0)
        ELSE /\ UNCHANGED buckets
             /\ Finish(p, "Crash", 1)
    /\ UNCHANGED << instances, zones, cmd, loc, budget, applied, pure >>

\* if pub: delete_public_access_block, put_bucket_ownership_controls, put_bucket_acl
S3CreatePublic(p) ==
    /\ pc[p] = "s3c_public"
    /\ Issue(p, << Call("delete_public_access_block", loc[p].id),
                  Call("put_bucket_ownership_controls", loc[p].id),
                  Call("put_bucket_acl", loc[p].id) >>)
    /\ buckets' = [buckets EXCEPT ![loc[p].id].acl = "public-read"]
    /\ Finish(p, "Success", 0)
    /\ UNCHANGED << instances, zones, cmd, loc, budget, applied, pure >>

\* ------------------------------------------------------------------ route53 create

Domains == { ExampleCom, ExampleComDot }

\* r53.change_tags_for_resource(AddTags=[tag]): the key's value is set
add_tag(tags, tag) ==
    IF \E i \in 1..Len(tags) : tags[i].Key = tag.Key
    THEN [i \in 1..Len(tags) |-> IF tags[i].Key = tag.Key THEN tag ELSE tags[i]]
    ELSE Append(tags, tag)

\* create(domain): no provider call precedes create_hosted_zone
R53CreateBegin(p) ==
    \E domain \in Domains :
        /\ Begin(p, [name |-> "route53 create", domain |-> domain])
        /\ calls' = [calls EXCEPT ![p] = << >>]
        /\ loc' = [loc EXCEPT ![p] = NoLoc]
        /\ Goto(p, "r53c_create")
        /\ UNCHANGED << world, pure >>

\* r53.create_hosted_zone(Name=domain, CallerReference=ref, ...)
R53CreateZone(p) ==
    /\ pc[p] = "r53c_create"
    /\ zones' = Append(zones, Zone(provider_zone_name(cmd[p].domain), NoTags))
    /\ loc' = [loc EXCEPT ![p].id = Len(zones) + 1]
    /\ Issue(p, << Call("create_hosted_zone", Len(zones) + 1) >>)
    /\ Goto(p, "r53c_tag")
    /\ UNCHANGED << instances, buckets, cmd, budget, applied, pure >>

\* r53.change_tags_for_resource(ResourceId=zone_id, AddTags=[CreatedBy])
R53CreateTag(p) ==
    /\ pc[p] = "r53c_tag"
    /\ Issue(p, << Call("change_tags_for_resource", loc[p].id) >>)
    /\ \E ok \in BOOLEAN :
        IF ok
        THEN /\ zones' = [zones EXCEPT ![loc[p].id].tags = add_tag(@, OwnerTag)]
             /\ Finish(p, "Success", 0)
        ELSE /\ UNCHANGED zones
             /\ Finish(p, "Crash", 1)
    /\ UNCHANGED << instances, buckets, cmd, loc, budget, applied, pure >>

\* ------------------------------------------------------------------ s3 upload

Files == { "report.txt" }

\* upload(bucket, file) up to its first provider call
S3UploadBegin(p) ==
    \E bucket \in 1..(Len(buckets) + 1), file \in Files, exists \in BOOLEAN :
        /\ Begin(p, [name |-> "s3 upload", bucket |-> bucket, file |-> file])
        /\ calls' = [calls EXCEPT ![p] = << >>]
        /\ loc' = [loc EXCEPT ![p] = NoLoc]
        /\ IF ~exists THEN Finish(p, "NoFile", 1) ELSE Goto(p, "s3u_tags")
        /\ UNCHANGED << world, pure >>

\* s3.get_bucket_tagging(Bucket=bucket) and the ownership loop; every
\* ClientError of the call ends in "Unable to verify bucket tags"
S3UploadTags(p) ==
    /\ pc[p] = "s3u_tags"
    /\ Issue(p, << Call("get_bucket_tagging", cmd[p].bucket) >>)
    /\ \E fault \in {"ok", "ClientError", "Exception"} :
        LET r == get_bucket_tagging(buckets, cmd[p].bucket, fault) IN
        /\ loc' = [loc EXCEPT
                     ![p].checked = IF fault # "ok" THEN "failed"
                                    ELSE IF r.err = "NoSuchBucket" THEN "missing"
                                    ELSE "found",
                     ![p].tags = IF fault = "ok" /\ r.err # "NoSuchBucket"
                                 THEN buckets[cmd[p].bucket].tags ELSE NoTags]
        /\ IF r.err = "Exception" THEN Finish(p, "Crash", 1)
           ELSE IF r.err # "none" THEN Finish(p, "TagFetchError", 1)
           ELSE IF ~is_our_bucket(r.TagSet) THEN Finish(p, "NotOwned", 1)
           ELSE Goto(p, "s3u_upload")
    /\ UNCHANGED << world, cmd, budget, applied, pure >>

\* s3.upload_file(file, bucket, file_name), inside the same try: a ClientError
\* of the upload is reported like one of the tag lookup
S3UploadFile(p) ==
    /\ pc[p] = "s3u_upload"
    /\ Issue(p, << Call("upload_file", cmd[p].bucket) >>)
    /\ loc' = [loc EXCEPT ![p].owned_at_call =
                 IF is_our_bucket(buckets[cmd[p].bucket].tags) THEN "yes" ELSE "no"]
    /\ \E fault \in {"ok", "ClientError", "Exception"} :
        IF fault = "ok"
        THEN /\ buckets' = [buckets EXCEPT ![cmd[p].bucket].objects = @ \cup {cmd[p].file}]
             /\ Finish(p, "Success", 0)
        ELSE /\ UNCHANGED buckets
             /\ IF fault = "ClientError" THEN Finish(p, "TagFetchError", 1)
                ELSE Finish(p, "Crash", 1)
    /\ UNCHANGED << instances, zones, cmd, budget, applied, pure >>

\* ------------------------------------------------------------------ route53 manage

ZoneArgs == { ExampleCom, ExampleComDot, OtherOrgDot }

\* target_zone_name = zone if zone.endswith('.') else f"{zone}."
target_zone_name(zone) == IF endswith_dot(zone) THEN zone ELSE Append(zone, ".")

\* find_in_page_Last: the loop without its break, the last zone of the page
\* with the name
find_in_page_Last(zns, page, target, j) ==
    LET hits == { i \in j..Len(page) : zns[page[i]].name = target }
    IN  IF hits = {} THEN 0
        ELSE page[CHOOSE i \in hits : \A k \in hits : k <= i]

\* the inner loop over one page: the first zone of the page with the name, or 0
RECURSIVE find_in_page(_, _, _, _)
find_in_page(zns, page, target, j) ==
    IF j > Len(page) THEN 0
    ELSE IF zns[page[j]].name = target THEN page[j]
    ELSE find_in_page(zns, page, target, j + 1)

\* the paginator loop from page k on: stops at the first page with a match
RECURSIVE find_zone(_, _, _)
find_zone(zns, target, k) ==
    IF k > NPages(zns) THEN [id |-> 0, calls |-> << >>]
    ELSE LET c == << Call("list_hosted_zones", k) >>
             here == find_in_page(zns, Page(zns, k), target, 1)
         IN  IF here # 0 THEN [id |-> here, calls |-> c]
             ELSE LET rest == find_zone(zns, target, k + 1)
                  IN  [id |-> rest.id, calls |-> c \o rest.calls]

\* the one flag that is set
intent(create, update, delete) ==
    IF create THEN "create" ELSE IF update THEN "update" ELSE "delete"

\* record_action_Create: a create intent sent as CREATE
record_action_Create(create, update, delete) ==
    IF delete THEN "DELETE" ELSE IF create THEN "CREATE" ELSE "UPSERT"

\* action = 'DELETE' if delete else 'UPSERT'
record_action(create, update, delete) == IF delete THEN "DELETE" ELSE "UPSERT"

\* r53.change_resource_record_sets on one record set: UPSERT creates the record
\* when it is missing and replaces it when it exists, CREATE is refused when it
\* exists, DELETE is refused unless the record exists with the values given
change_resource_record_sets(zns, z, action, key, value, ttl) ==
    LET now == zns[z].records[key]
        new == [Value |-> value, TTL |-> ttl]
    IN  IF action = "UPSERT"
        THEN [err |-> "none", zns |-> [zns EXCEPT ![z].records[key] = new]]
        ELSE IF action = "CREATE"
        THEN IF now = NoRecord
             THEN [err |-> "none", zns |-> [zns EXCEPT ![z].records[key] = new]]
             ELSE [err |-> "InvalidChangeBatch", zns |-> zns]
        ELSE IF now = new
             THEN [err |-> "none", zns |-> [zns EXCEPT ![z].records[key] = NoRecord]]
             ELSE [err |-> "InvalidChangeBatch", zns |-> zns]

\* manage(create, update, delete, zone, name, value, type, ttl) up to its first
\* provider call; a wrong number of flags returns from the command
R53ManageBegin(p) ==
    \E create \in BOOLEAN, update \in BOOLEAN, delete \in BOOLEAN,
       zone \in ZoneArgs, key \in RecordKeys, value \in RecordValues, ttl \in TTLs :
        /\ Begin(p, [name |-> "route53 manage", create |-> create, update |-> update,
                     delete |-> delete, zone |-> zone, key |-> key, value |-> value,
                     ttl |-> ttl])
        /\ calls' = [calls EXCEPT ![p] = << >>]
        /\ loc' = [loc EXCEPT ![p] = NoLoc]
        /\ IF Cardinality({ f \in {"c", "u", "d"} :
                              \/ f = "c" /\ create
                              \/ f = "u" /\ update
                              \/ f = "d" /\ delete }) # 1
           THEN Finish(p, "UserInput", 0)
           ELSE Goto(p, "r53m_find")
        /\ UNCHANGED << world, pure >>

\* the list_hosted_zones loop; without a match the command returns
R53ManageFind(p) ==
    /\ pc[p] = "r53m_find"
    /\ LET r == find_zone(zones, target_zone_name(cmd[p].zone), 1) IN
        /\ Issue(p, r.calls)
        /\ loc' = [loc EXCEPT ![p].id = r.id,
                              ![p].checked = IF r.id = 0 THEN "missing" ELSE "no"]
        /\ IF r.id = 0 THEN Finish(p, "NotFound", 0) ELSE Goto(p, "r53m_tags")
    /\ UNCHANGED << world, cmd, budget, applied, pure >>

\* r53.list_tags_for_resource(ResourceId=found_zone_id) and the ownership loop;
\* the command returns on a failed lookup and on a zone that is not owned
R53ManageTags(p) ==
    /\ pc[p] = "r53m_tags"
    /\ Issue(p, << Call("list_tags_for_resource", loc[p].id) >>)
    /\ \E fault \in {"ok", "Exception"} :
        LET r == list_tags_for_resource(zones, loc[p].id, fault) IN
        /\ loc' = [loc EXCEPT
                     ![p].checked = IF r.err # "none" THEN "failed" ELSE "found",
                     ![p].tags = r.Tags]
        /\ IF r.err # "none" THEN Finish(p, "TagFetchError", 0)
           ELSE IF ~is_our_record(r.Tags) THEN Finish(p, "NotOwned", 0)
           ELSE Goto(p, "r53m_change")
    /\ UNCHANGED << world, cmd, budget, applied, pure >>

\* r53.change_resource_record_sets(HostedZoneId=found_zone_id, ChangeBatch=...);
\* every exception is caught and printed
R53ManageChange(p) ==
    /\ pc[p] = "r53m_change"
    /\ LET action == record_action(cmd[p].create, cmd[p].update, cmd[p].delete)
           r == change_resource_record_sets(zones, loc[p].id, action, cmd[p].key,
                                            cmd[p].value, cmd[p].ttl)
       IN
        /\ Issue(p, << ChangeCall(action, loc[p].id) >>)
        /\ loc' = [loc EXCEPT ![p].owned_at_call =
                     IF is_our_record(zones[loc[p].id].tags) THEN "yes" ELSE "no"]
        /\ \E fault \in {"ok", "Exception"} :
            IF fault = "ok" /\ r.err = "none"
            THEN /\ zones' = r.zns
                 /\ applied' = Append(applied, intent(cmd[p].create, cmd[p].update,
                                                      cmd[p].delete))
                 /\ Finish(p, "Success", 0)
            ELSE /\ UNCHANGED << zones, applied >>
                 /\ Finish(p, "ProviderError", 0)
    /\ UNCHANGED << instances, buckets, cmd, budget, pure >>

\* ------------------------------------------------------------------ the rest of the world

\* another user or tool changes the tags of a resource
ExternalRetag ==
    /\ \E t \in TagChoices :
        \/ \E i \in 1..Len(instances) :
            /\ instances[i].tags # t
            /\ instances' = [instances EXCEPT ![i].tags = t]
            /\ UNCHANGED << buckets, zones >>
        \/ \E i \in 1..Len(buckets) :
            /\ buckets[i].tags # t
            /\ buckets' = [buckets EXCEPT ![i].tags = t]
            /\ UNCHANGED << instances, zones >>
        \/ \E i \in 1..Len(zones) :
            /\ zones[i].tags # t
            /\ zones' = [zones EXCEPT ![i].tags = t]
            /\ UNCHANGED << instances, buckets >>
    /\ UNCHANGED << run, pure >>

\* an instance moves on: pending to running, stopping to stopped, or it is
\* terminated from outside
ExternalInstanceState ==
    /\ \E i \in 1..Len(instances), s \in InstanceStates :
        /\ \/ instances[i].state = "pending" /\ s = "running"
           \/ instances[i].state = "stopping" /\ s = "stopped"
           \/ instances[i].state \in {"running", "stopped"} /\ s = "terminated"
        /\ instances' = [instances EXCEPT ![i].state = s]
    /\ UNCHANGED << buckets, zones, run, pure >>

\* ------------------------------------------------------------------ specifications

Command(p) ==
    \/ Ec2CreateBegin(p) \/ Ec2CreateSts(p) \/ Ec2CreateCount(p)
    \/ Ec2CreateSsm(p) \/ Ec2CreateRun(p)
    \/ S3CreateBegin(p) \/ S3CreateSts(p) \/ S3CreateCount(p)
    \/ S3CreateBucket(p) \/ S3CreateTag(p) \/ S3CreatePublic(p)
    \/ R53CreateBegin(p) \/ R53CreateZone(p) \/ R53CreateTag(p)
    \/ Ec2ManageBegin(p) \/ Ec2ManageDescribe(p) \/ Ec2ManageStart(p)
    \/ Ec2ManageStop(p)
    \/ S3UploadBegin(p) \/ S3UploadTags(p) \/ S3UploadFile(p)
    \/ R53ManageBegin(p) \/ R53ManageFind(p) \/ R53ManageTags(p)
    \/ R53ManageChange(p)

\* one invocation of the tool at a time, the resource set changing under it
Next == Command(1) \/ ExternalRetag \/ ExternalInstanceState

Spec == Init /\ [][Next]_vars

\* Commands run one after another by one user, nobody else changing the
\* resource set. SeqSpec starts with no resources at all.
SeqInit ==
    /\ instances = << >>
    /\ buckets = << >>
    /\ zones = << >>
    /\ RunInit
    /\ budget = MaxFollowUps
    /\ applied = << >>
    /\ PureInit

SeqNext == Command(1)

SeqSpec == SeqInit /\ [][SeqNext]_vars

\* Record intents applied one after another to the zones of one account: an
\* owned example.com. and, or, a zone of someone else
DnsInit ==
    /\ instances = << >>
    /\ buckets = << >>
    /\ zones \in { << Zone(ExampleComDot, OwnedTags) >>,
                   << Zone(OtherOrgDot, NoTags), Zone(ExampleComDot, OwnedLast) >>,
                   << Zone(OtherOrgDot, OtherTags) >> }
    /\ RunInit
    /\ budget = MaxFollowUps
    /\ applied = << >>
    /\ PureInit

DnsNext ==
    \/ R53ManageBegin(1) \/ R53ManageFind(1) \/ R53ManageTags(1)
    \/ R53ManageChange(1)

DnsSpec == DnsInit /\ [][DnsNext]_vars

\* Two invocations of the tool at the same time, each running one creation
\* command, on an account that holds up to one owned instance and bucket
ConcInit ==
    /\ instances \in { << >>, << Instance(OwnedTags, "running") >> }
    /\ buckets \in { << >>, << Bucket(OwnedTags) >> }
    /\ zones = << >>
    /\ RunInit
    /\ budget = 0
    /\ applied = << >>
    /\ PureInit

Create(p) ==
    \/ Ec2CreateBegin(p) \/ Ec2CreateSts(p) \/ Ec2CreateCount(p)
    \/ Ec2CreateSsm(p) \/ Ec2CreateRun(p)
    \/ S3CreateBegin(p) \/ S3CreateSts(p) \/ S3CreateCount(p)
    \/ S3CreateBucket(p) \/ S3CreateTag(p) \/ S3CreatePublic(p)
    \/ R53CreateBegin(p) \/ R53CreateZone(p) \/ R53CreateTag(p)

ConcNext == \E p \in Procs : Create(p)

ConcSpec == ConcInit /\ [][ConcNext]_vars

\* ------------------------------------------------------------------ the pure functions

\* The ownership loops on one tag list
OwnedInit ==
    /\ instances = << >>
    /\ buckets = << >>
    /\ zones = << >>
    /\ RunInit
    /\ budget = 0
    /\ applied = << >>
    /\ tagInput \in TagLists
    /\ verdicts = NoVerdicts
    /\ countResult = -1
    /\ countFault = NoFault(<< >>, << >>)
    /\ countAborted = FALSE

CheckOwnership ==
    /\ ~verdicts.done
    /\ verdicts' = [done |-> TRUE,
                    count_bucket |-> s3_count_owned(tagInput),
                    count_zone |-> r53_count_owned(tagInput),
                    ec2_manage |-> is_our_instance(tagInput),
                    s3_upload |-> is_our_bucket(tagInput),
                    r53_manage |-> is_our_record(tagInput)]
    /\ UNCHANGED << world, run, tagInput, countResult, countFault, countAborted >>

OwnedNext == CheckOwnership

OwnedSpec == OwnedInit /\ [][OwnedNext]_vars

\* get_global_count on a resource set, every lookup succeeding
CountTags == {NoTags, OwnedTags, OtherTags}
CountStates == {"pending", "running", "stopped"}
MaxCounted == 2

CountInit ==
    /\ instances \in SeqsUpTo({ Instance(t, st) : t \in {NoTags, OwnedTags},
                                                  st \in CountStates }, MaxCounted)
    /\ buckets \in SeqsUpTo({ Bucket(t) : t \in CountTags }, MaxCounted)
    /\ zones \in SeqsUpTo({ Zone(ExampleComDot, t) : t \in {NoTags, OwnedLast} },
                          MaxCounted + 1)
    /\ RunInit
    /\ budget = 0
    /\ applied = << >>
    /\ tagInput = NoTags
    /\ verdicts = NoVerdicts
    /\ countResult = -1
    /\ countFault = NoFault(<< >>, << >>)
    /\ countAborted = FALSE

ComputeCount ==
    /\ countResult = -1
    /\ countFault = NoFault(<< >>, << >>)
    /\ countAborted = FALSE
    /\ countResult' =
         get_global_count(instances, buckets, zones, NoFault(buckets, zones)).count
    /\ UNCHANGED << world, run, tagInput, verdicts, countFault, countAborted >>

CountNext == ComputeCount

CountSpec == CountInit /\ [][CountNext]_vars

\* get_global_count on a resource set while calls fail: any one primary
\* listing call, and any of the tag lookups
MaxFaulty == 2

FaultInit ==
    /\ instances \in { << >>, << Instance(OwnedTags, "running") >> }
    /\ buckets \in SeqsUpTo({ Bucket(t) : t \in {NoTags, OwnedTags} }, MaxFaulty)
    /\ zones \in SeqsUpTo({ Zone(ExampleComDot, t) : t \in {OtherTags, OwnedLast} },
                          MaxFaulty + 1)
    /\ RunInit
    /\ budget = 0
    /\ applied = << >>
    /\ tagInput = NoTags
    /\ verdicts = NoVerdicts
    /\ countResult = -1
    /\ countFault \in Faults(buckets, zones)
    /\ countAborted = FALSE

ComputeCountFaulty ==
    /\ countResult = -1
    /\ LET r == get_global_count(instances, buckets, zones, countFault) IN
        /\ countResult' = r.count
        /\ countAborted' = r.aborted
    /\ UNCHANGED << world, run, tagInput, verdicts, countFault >>

FaultNext == ComputeCountFaulty

FaultSpec == FaultInit /\ [][FaultNext]_vars

\* route53 manage, one command, on an account whose zones may share a name,
\* on one page of the listing and across pages
MaxZones == 4

ZoneInit ==
    /\ instances = << >>
    /\ buckets = << >>
    /\ zones \in SeqsUpTo({ Zone(n, t) : n \in {ExampleComDot, OtherOrgDot},
                                         t \in {OwnedTags, OtherTags} }, MaxZones)
    /\ RunInit
    /\ budget = 0
    /\ applied = << >>
    /\ PureInit

ZoneNext ==
    \/ R53ManageBegin(1) \/ R53ManageFind(1) \/ R53ManageTags(1)
    \/ R53ManageChange(1)

ZoneSpec == ZoneInit /\ [][ZoneNext]_vars

\* ------------------------------------------------------------------ properties

\* the tag list holds the pair CreatedBy = Hi-platform-cli
HasPair(tags) == \E i \in DOMAIN tags : tags[i] = OwnerTag

Ops(p) == { calls[p][i].op : i \in DOMAIN calls[p] }

MutatingCommands == {"ec2 manage", "s3 upload", "route53 manage"}
CreationCommands == {"ec2 create", "s3 create", "route53 create"}
MutationOps ==
    {"start_instances", "stop_instances", "upload_file", "change_resource_record_sets"}
CreateOps == {"run_instances", "create_bucket", "create_hosted_zone"}

\* owned resources that count against the cap: owned instances pending or
\* running, owned buckets, owned zones
OwnedActive ==
    Cardinality({ i \in DOMAIN instances :
                    HasPair(instances[i].tags)
                    /\ instances[i].state \in {"pending", "running"} })
    + Cardinality({ i \in DOMAIN buckets : HasPair(buckets[i].tags) })
    + Cardinality({ i \in DOMAIN zones : HasPair(zones[i].tags) })

\* C1: in a mutating command (ec2 manage, s3 upload, route53 manage), when the
\* resource the ownership check looked up does not carry the pair
\* CreatedBy = Hi-platform-cli, the command has ended, not in success, and has
\* issued no mutation call; a mutation call is issued only after a lookup that
\* found the pair.
C1_OwnershipGate ==
    \A p \in Procs :
        cmd[p].name \in MutatingCommands =>
            /\ (loc[p].checked = "found" /\ ~HasPair(loc[p].tags)) =>
                  /\ pc[p] = "done"
                  /\ outcome[p] \notin {"Success", "NoOp"}
                  /\ Ops(p) \cap MutationOps = {}
            /\ (Ops(p) \cap MutationOps # {}) =>
                  loc[p].checked = "found" /\ HasPair(loc[p].tags)

\* ec2 manage --stop on an instance tagged CreatedBy = someone-else is denied
C1_Witness ==
    \E p \in Procs :
        /\ pc[p] = "done"
        /\ cmd[p].name = "ec2 manage" /\ cmd[p].stop
        /\ loc[p].checked = "found" /\ loc[p].tags = OtherTags
        /\ outcome[p] = "NotOwned"
        /\ Ops(p) = {"describe_instances"}

\* C2: a creation command (ec2 create, s3 create, route53 create) that runs
\* while the owned active resources number MAX_RESOURCES or more issues no
\* provider create call and ends rejected, reporting the count. (Commands in
\* sequence, nobody else changing the resource set.)
C2_AdmissionBlocks ==
    \A p \in Procs :
        cmd[p].name \in CreationCommands =>
            /\ pc[p] \in {"ec2c_run", "s3c_create", "r53c_create"} =>
                  OwnedActive < MAX_RESOURCES
            /\ ( /\ pc[p] = "done"
                 /\ Ops(p) \cap CreateOps = {}
                 /\ OwnedActive >= MAX_RESOURCES
                 /\ outcome[p] \notin {"UserInput", "ConfigError", "Crash"} ) =>
                  outcome[p] = "QuotaExceeded" /\ loc[p].total_count = OwnedActive

\* C3: a creation command that has passed the admission check issues its
\* create call whatever the resource set has become since: the step after
\* admission adds the resource, with no second count and no lock. (With two
\* creators at once the cap is exceeded: C3_CapExceeded.)
C3_NoRecheck ==
    [][ \A p \in Procs :
          /\ (pc[p] = "ec2c_run" /\ pc'[p] # "ec2c_run") =>
                Len(instances') = Len(instances) + 1
          /\ (pc[p] = "s3c_create" /\ pc'[p] # "s3c_create") =>
                Len(buckets') = Len(buckets) + 1 ]_vars

\* both creators read a count under the cap, both created, and the count of
\* owned resources is now above the cap
C3_CapExceeded ==
    /\ \A p \in Procs :
        /\ pc[p] = "done" /\ outcome[p] = "Success"
        /\ cmd[p].name \in {"ec2 create", "s3 create"}
        /\ loc[p].total_count < MAX_RESOURCES
    /\ cmd[1].name = "ec2 create" /\ cmd[2].name = "s3 create"
    /\ OwnedActive > MAX_RESOURCES

\* C4: get_global_count returns the number of owned instances pending or
\* running plus the owned buckets plus the owned zones of all pages.
C4_CountIsOwnedActive ==
    countResult # -1 => countResult = OwnedActive

\* C5: each of the five ownership loops answers owned exactly for the tag
\* lists that hold the pair CreatedBy = Hi-platform-cli, so all five agree.
C5_OwnedIffPair ==
    verdicts.done =>
        /\ verdicts.count_bucket = HasPair(tagInput)
        /\ verdicts.count_zone = HasPair(tagInput)
        /\ verdicts.ec2_manage = HasPair(tagInput)
        /\ verdicts.s3_upload = HasPair(tagInput)
        /\ verdicts.r53_manage = HasPair(tagInput)

\* the pair after two other tags, one of them CreatedBy with another value
C5_Witness ==
    /\ verdicts.done
    /\ Len(tagInput) = 3
    /\ tagInput[1] = Tag("CreatedBy", "someone-else")
    /\ tagInput[3] = OwnerTag
    /\ verdicts.ec2_manage /\ verdicts.s3_upload /\ verdicts.r53_manage
    /\ verdicts.count_bucket /\ verdicts.count_zone

\* C6: ec2 manage on an owned instance seen terminated ends with the error
\* outcome of an invalid transition, for --start and for --stop, and issues
\* neither start_instances nor stop_instances.
C6_TerminatedDenied ==
    \A p \in Procs :
        (cmd[p].name = "ec2 manage" /\ loc[p].state = "terminated") =>
            /\ pc[p] = "done"
            /\ outcome[p] = "InvalidTransition"
            /\ exitStatus[p] # 0
            /\ Ops(p) \cap {"start_instances", "stop_instances"} = {}

\* C7: ec2 manage on an owned instance whose state already satisfies the
\* request (start: running, pending; stop: stopped, stopping) ends as a no-op
\* with exit status 0 and without a start or stop call; the no-op outcome is
\* that of no other ending: success comes with a mutation call, the other
\* outcomes with a non-zero status.
C7_NoOp ==
    \A p \in Procs :
        cmd[p].name = "ec2 manage" =>
            /\ ( \/ cmd[p].start /\ loc[p].state \in {"running", "pending"}
                 \/ cmd[p].stop /\ loc[p].state \in {"stopped", "stopping"} ) =>
                  /\ pc[p] = "done"
                  /\ outcome[p] = "NoOp"
                  /\ exitStatus[p] = 0
                  /\ Ops(p) \cap MutationOps = {}
            /\ (pc[p] = "done" /\ outcome[p] = "Success") =>
                  Ops(p) \cap MutationOps # {}
            /\ (pc[p] = "done" /\ outcome[p] \notin {"Success", "NoOp"}) =>
                  exitStatus[p] # 0

\* --start on an owned pending instance
C7_Witness ==
    \E p \in Procs :
        /\ pc[p] = "done"
        /\ cmd[p].name = "ec2 manage" /\ cmd[p].start
        /\ loc[p].state = "pending"
        /\ outcome[p] = "NoOp"

ChangeCalls(p) ==
    { i \in DOMAIN calls[p] : calls[p][i].op = "change_resource_record_sets" }

\* C8: route53 manage sends one change per command, with action UPSERT for a
\* create and for an update intent and DELETE for a delete intent; after an
\* applied create or update the record holds the value of that intent, whatever
\* it held before (so the last applied value stands, and applying the same
\* intent again changes nothing); after an applied delete the record is gone.
C8_Upsert ==
    \A p \in Procs :
        cmd[p].name = "route53 manage" =>
            /\ Cardinality(ChangeCalls(p)) <= 1
            /\ \A i \in ChangeCalls(p) :
                  calls[p][i].action = IF cmd[p].delete THEN "DELETE" ELSE "UPSERT"
            /\ (pc[p] = "done" /\ outcome[p] = "Success") =>
                  zones[loc[p].id].records[cmd[p].key] =
                      IF cmd[p].delete THEN NoRecord
                      ELSE [Value |-> cmd[p].value, TTL |-> cmd[p].ttl]

\* create 1.2.3.4, update, then create again, now with 5.6.7.8 over another value
C8_Witness ==
    /\ applied = << "create", "update", "create" >>
    /\ pc[1] = "done" /\ outcome[1] = "Success"
    /\ cmd[1].create /\ cmd[1].value = "5.6.7.8"
    /\ zones[loc[1].id].records[cmd[1].key].Value = "5.6.7.8"

\* C9: a command that ends in a rejection (wrong flags, resource or zone not
\* found, not owned, quota exceeded, invalid transition) exits with a non-zero
\* status, one that succeeds or ends as a no-op exits with status 0.
C9_ExitContract ==
    \A p \in Procs :
        pc[p] = "done" =>
            /\ outcome[p] \in {"UserInput", "NotFound", "NotOwned", "QuotaExceeded",
                               "InvalidTransition"} => exitStatus[p] # 0
            /\ outcome[p] \in {"Success", "NoOp"} => exitStatus[p] = 0

\* C10: a mutating command on a resource that does not exist is rejected, and
\* not as not-owned; one on a resource that exists without the ownership pair,
\* a resource without any tags included, is rejected as not owned.
C10_NotFoundVsNotOwned ==
    \A p \in Procs :
        (pc[p] = "done" /\ cmd[p].name \in MutatingCommands) =>
            /\ loc[p].checked = "missing" =>
                  outcome[p] \in {"NotFound", "TagFetchError"}
            /\ (loc[p].checked = "found" /\ ~HasPair(loc[p].tags)) =>
                  outcome[p] = "NotOwned"

\* C11: in get_global_count no failing tag lookup of a bucket or a zone, of
\* whatever kind, aborts the count: the count is aborted exactly when a
\* primary listing call fails, and otherwise the result is the count over the
\* items whose lookup did not fail.
C11_LookupFailuresTolerated ==
    countResult # -1 =>
        /\ countAborted = (countFault.list # "none")
        /\ ~countAborted =>
              countResult =
                  Cardinality({ i \in DOMAIN instances :
                                  HasPair(instances[i].tags)
                                  /\ instances[i].state = "running" })
                  + Cardinality({ i \in DOMAIN buckets :
                                    countFault.bucket[i] = "ok"
                                    /\ HasPair(buckets[i].tags) })
                  + Cardinality({ i \in DOMAIN zones :
                                    countFault.zone[i] = "ok"
                                    /\ HasPair(zones[i].tags) })

\* C12: starting with no owned resources and nothing else changing the
\* resource set, an ec2 create whose provider calls succeed passes admission,
\* issues exactly one run_instances call whose instance carries the pair
\* CreatedBy = Hi-platform-cli, and a global count taken right after it
\* returns 1.
C12_CreateThenCountOne ==
    ( /\ budget = MaxFollowUps
      /\ pc[1] = "done"
      /\ cmd[1].name = "ec2 create"
      /\ outcome[1] \notin {"ConfigError", "Crash"} ) =>
        /\ outcome[1] = "Success"
        /\ Cardinality({ i \in DOMAIN calls[1] : calls[1][i].op = "run_instances" }) = 1
        /\ Len(instances) = 1
        /\ HasPair(instances[1].tags)
        /\ get_global_count(instances, buckets, zones,
                            NoFault(buckets, zones)).count = 1

RollbackOps == {"delete_bucket", "delete_hosted_zone"}

\* the create call of p's creation command succeeded and its tag write did
\* not: the command stands between the two calls (where a stopped process
\* leaves the provider) or has ended on the failed tag write
TagWriteMissing(p, name, create_op, tag_label) ==
    /\ cmd[p].name = name
    /\ create_op \in Ops(p)
    /\ \/ pc[p] = tag_label
       \/ pc[p] = "done" /\ outcome[p] = "Crash"

\* C13: in s3 create and route53 create the create call and the tag write are
\* separate steps; when the create call has succeeded and the tag write has
\* failed or has not been made, the resource exists without the pair
\* CreatedBy = Hi-platform-cli, the command has issued no delete call, and the
\* resource is neither counted by get_global_count nor accepted by the
\* ownership checks of s3 upload and route53 manage.
C13_NoRollback ==
    \A p \in Procs :
        /\ TagWriteMissing(p, "s3 create", "create_bucket", "s3c_tag") =>
              /\ loc[p].id \in DOMAIN buckets
              /\ ~HasPair(buckets[loc[p].id].tags)
              /\ ~s3_count_owned(buckets[loc[p].id].tags)
              /\ ~is_our_bucket(buckets[loc[p].id].tags)
              /\ Ops(p) \cap RollbackOps = {}
        /\ TagWriteMissing(p, "route53 create", "create_hosted_zone", "r53c_tag") =>
              /\ loc[p].id \in DOMAIN zones
              /\ ~HasPair(zones[loc[p].id].tags)
              /\ ~r53_count_owned(zones[loc[p].id].tags)
              /\ ~is_our_record(zones[loc[p].id].tags)
              /\ Ops(p) \cap RollbackOps = {}

\* an s3 create has ended on its failed tag write, its bucket left untagged,
\* and so has a route53 create before or after it
C13_Witness ==
    /\ pc[1] = "done"
    /\ outcome[1] = "Crash"
    /\ cmd[1].name \in {"s3 create", "route53 create"}
    /\ \E b \in DOMAIN buckets : buckets[b].tags = NoTags
    /\ \E z \in DOMAIN zones : zones[z].tags = NoTags
    /\ Ops(1) \cap {"put_bucket_tagging", "change_tags_for_resource"} # {}

\* C14: in every command doing governance work (ec2 create, s3 create,
\* route53 create, ec2 manage, s3 upload, route53 manage) the identity check
\* get_caller_identity is the first provider call, and a command that ended on
\* its failure (configuration error) has issued no other call.
C14_IdentityCheckFirst ==
    \A p \in Procs :
        cmd[p].name \in CreationCommands \cup MutatingCommands =>
            /\ calls[p] # << >> => calls[p][1].op = "get_caller_identity"
            /\ outcome[p] = "ConfigError" =>
                  /\ exitStatus[p] = 1
                  /\ calls[p] = << Call("get_caller_identity", 0) >>

\* the number of action flags a route53 manage call sets
FlagCount(c) ==
    (IF c.create THEN 1 ELSE 0) + (IF c.update THEN 1 ELSE 0)
    + (IF c.delete THEN 1 ELSE 0)

\* C15: an ec2 manage call with both or neither of --start/--stop, and a
\* route53 manage call with zero, two or three of --create/--update/--delete,
\* has ended as a user-input error without issuing any provider call.
C15_FlagErrorsBeforeCalls ==
    \A p \in Procs :
        /\ (cmd[p].name = "ec2 manage" /\ cmd[p].start = cmd[p].stop) =>
              /\ pc[p] = "done"
              /\ outcome[p] = "UserInput"
              /\ calls[p] = << >>
        /\ (cmd[p].name = "route53 manage" /\ FlagCount(cmd[p]) # 1) =>
              /\ pc[p] = "done"
              /\ outcome[p] = "UserInput"
              /\ calls[p] = << >>

\* an ec2 manage call with neither flag has been rejected
C15_Witness ==
    /\ cmd[1].name = "ec2 manage"
    /\ ~cmd[1].start
    /\ ~cmd[1].stop
    /\ outcome[1] = "UserInput"
    /\ Len(instances) = 1

\* C16: ec2 manage on an owned instance issues start_instances only when the
\* state it observed is stopped and stop_instances only when the state it
\* observed is running; from every other observed state it issues no
\* mutation call.
C16_MutateOnlyFromValidState ==
    \A p \in Procs :
        cmd[p].name = "ec2 manage" =>
            /\ "start_instances" \in Ops(p) => loc[p].state = "stopped"
            /\ "stop_instances" \in Ops(p) => loc[p].state = "running"

\* the zone argument in the provider's form, and the first zone of the
\* listing that bears a name (0 when none does)
Dotted(zone) == IF zone = ExampleCom THEN ExampleComDot ELSE zone

FirstNamed(name) ==
    IF \E i \in DOMAIN zones : zones[i].name = name
    THEN CHOOSE i \in DOMAIN zones :
            /\ zones[i].name = name
            /\ \A k \in 1..(i - 1) : zones[k].name # name
    ELSE 0

TargetsOf(p, op) == { calls[p][i].target : i \in { k \in DOMAIN calls[p] :
                                                      calls[p][k].op = op } }

\* C17: route53 manage resolves its zone argument, a trailing dot appended
\* when missing, to the first zone of the listing (all pages, in order) with
\* exactly that name, so example.com and example.com. resolve alike; the tag
\* lookup and the record change go to that zone, also when a later zone has
\* the same name; when no zone has the name the command is rejected with no
\* tag lookup and no record change.
C17_FirstMatch ==
    \A p \in Procs :
        ( /\ cmd[p].name = "route53 manage"
          /\ FlagCount(cmd[p]) = 1
          /\ pc[p] # "r53m_find" ) =>
            /\ loc[p].id = FirstNamed(Dotted(cmd[p].zone))
            /\ TargetsOf(p, "list_tags_for_resource") \subseteq {loc[p].id}
            /\ TargetsOf(p, "change_resource_record_sets") \subseteq {loc[p].id}
            /\ loc[p].id = 0 =>
                  /\ pc[p] = "done"
                  /\ outcome[p] = "NotFound"
                  /\ Ops(p) \cap {"list_tags_for_resource",
                                  "change_resource_record_sets"} = {}
            /\ (pc[p] = "done" /\ outcome[p] = "Success") =>
                  /\ TargetsOf(p, "list_tags_for_resource") = {loc[p].id}
                  /\ TargetsOf(p, "change_resource_record_sets") = {loc[p].id}

\* example.com, given without the dot, resolved to the owned zone on the
\* second page although the zone after it has the same name
C17_Witness ==
    /\ Len(zones) = 4
    /\ zones[1].name = OtherOrgDot /\ zones[2].name = OtherOrgDot
    /\ zones[3].name = ExampleComDot /\ zones[4].name = ExampleComDot
    /\ zones[4].tags = OtherTags
    /\ cmd[1].name = "route53 manage" /\ cmd[1].zone = ExampleCom
    /\ pc[1] = "done" /\ outcome[1] = "Success"
    /\ loc[1].id = 3
    /\ TargetsOf(1, "change_resource_record_sets") = {3}
    /\ zones[4].records = NoRecords

LastOp(cs) == IF cs = << >> THEN "none" ELSE cs[Len(cs)].op

\* C18: nothing is locked between the ownership check and the mutation call
\* of a command: the step a command takes from the position after its check
\* issues the mutation call, whatever the tags and the state of the resource
\* have become since the check. (So a mutation call reaches a resource that is
\* not owned at that moment: C18_MutatedNotOwned.)
C18_NoLock ==
    [][ \A p \in Procs :
          /\ (pc[p] = "ec2m_start" /\ pc'[p] # "ec2m_start") =>
                LastOp(calls'[p]) = "start_instances"
          /\ (pc[p] = "ec2m_stop" /\ pc'[p] # "ec2m_stop") =>
                LastOp(calls'[p]) = "stop_instances"
          /\ (pc[p] = "s3u_upload" /\ pc'[p] # "s3u_upload") =>
                LastOp(calls'[p]) = "upload_file"
          /\ (pc[p] = "r53m_change" /\ pc'[p] # "r53m_change") =>
                LastOp(calls'[p]) = "change_resource_record_sets" ]_vars

\* an s3 upload read the pair on the bucket, the bucket was retagged to
\* CreatedBy = someone-else, and the upload call was issued on it
C18_MutatedNotOwned ==
    /\ cmd[1].name = "s3 upload"
    /\ pc[1] = "done"
    /\ outcome[1] = "Success"
    /\ loc[1].checked = "found"
    /\ HasPair(loc[1].tags)
    /\ loc[1].owned_at_call = "no"
    /\ "upload_file" \in Ops(1)
    /\ buckets[cmd[1].bucket].objects # {}

\* C19: with the commands of the tool run one after another, by one user and
\* with nobody else changing the resource set, the owned active resources
\* (owned instances pending or running, owned buckets, owned zones) never
\* number more than MAX_RESOURCES.
C19_CapHolds == OwnedActive <= MAX_RESOURCES

====
